---- MODULE Spec2Model ----
(***************************************************************************)
(* A model of the two singly-linked stacks of rs-lists:                    *)
(*   src/src/first.rs   List       (i32 elements, Link = Empty | More)     *)
(*   src/src/second.rs  List<T>    (Link<T> = Option<Box<Node<T>>>) with   *)
(*                      IntoIter, Iter and IterMut.                        *)
(* The heap is a map from node identities to Node records; a Box<Node> and *)
(* a reference to a Node are both represented by the node's identity.      *)
(* Methods whose intermediate states matter (push, pop, IterMut::next,     *)
(* drop) are split into the steps of their bodies, sequenced by pc.        *)
(***************************************************************************)
EXTENDS Integers, Sequences, FiniteSets, TLC

\* Bound of the model: the longest chain that is built.
MaxLen == 3
\* Bound of the model: calls of next() explored after an iterator has ended.
MaxExtra == 2

\* The element values: the ones test::basics pushes.
Values == {1, 2, 3, 4, 5}
\* Node identities (addresses handed out by Box::new).
NodeIds == 1..MaxLen
\* The borrowing iterators (Iter) a client may hold at the same time.
IterIds == {1, 2}

VARIABLES
    module,     \* "first" or "second": the module whose List the client uses
    head,       \* second.rs List<T>.head
    heap,       \* second.rs: node identity -> Node<T> {elem, next}
    head1,      \* first.rs List.head
    heap1,      \* first.rs: node identity -> Node {elem, next}
    owner,      \* "list": the client holds the List; "into_iter": it was moved
                \* into an IntoIter; "dropped": its destructor has finished
    pc,         \* position inside the method being executed, "idle" between calls
    local,      \* the local variables of the method being executed
    peeked,     \* the Option<&T> of the last peek() while the client holds it
    pmut,       \* the Option<&mut T> of the last peek_mut() while it is held
    iters,      \* IterIds -> the Iter the client holds in that slot, or NoIter
    itermut,    \* the IterMut the client holds, or NoIter
    ret,        \* history: the last completed call, its result, the chain before it
    shadow,     \* history: the values pushed and not yet popped, newest first
    basics,     \* history: progress of the calls through the script of test::basics
    out,        \* history: the results of next() of the IntoIter / IterMut in use
    iter_out,   \* history: IterIds -> the results of next() of that Iter
    snap,       \* history: the chain's contents when the iterator / drop began
    released,   \* history: the nodes whose storage drop released, in order
    loops,      \* history: the iterations of drop's loop
    depth,      \* history: the deepest nesting of node releases seen
    net         \* history: the pushes made less the pops that returned an element

vars == <<module, head, heap, head1, heap1, owner, pc, local, peeked, pmut,
          iters, itermut, ret, shadow, basics, out, iter_out, snap,
          released, loops, depth, net>>

first_vars == <<head1, heap1>>
borrow_vars == <<peeked, pmut, iters, itermut>>
iter_hist == <<out, iter_out, snap>>
drop_hist == <<released, loops, depth, net>>

----------------------------------------------------------------------------
\* Option<X>

None == <<>>
Some(x) == <<x>>
IsSome(o) == o /= <<>>
Unwrap(o) == o[1]

\* first.rs: enum Link { Empty, More(Box<Node>) }
Empty == [tag |-> "Empty"]
More(n) == [tag |-> "More", node |-> n]

NoIter == [live |-> FALSE]
NoLocal == [fn |-> "none"]

\* Box::new: the allocator hands out an unused identity (the least one: which
\* address is handed out is not observable by the program).
BoxNew(h) == CHOOSE n \in NodeIds \ DOMAIN h : \A m \in NodeIds \ DOMAIN h : n <= m

\* The heap h with node n holding the record r.
Store(h, n, r) == [m \in DOMAIN h \cup {n} |-> IF m = n THEN r ELSE h[m]]

\* A release that leaves the storage of the nodes allocated.
Free_leak(h, S) == h

\* The heap h with the storage of the nodes in S released.
Free(h, S) == [m \in DOMAIN h \ S |-> h[m]]

----------------------------------------------------------------------------
\* Abstraction: the elements of the chain that starts at link l, head first.
\* fuel bounds the walk, so that it ends on a cyclic chain too.

RECURSIVE Walk(_, _, _)
Walk(h, l, fuel) ==
    IF l = None \/ fuel = 0 THEN <<>>
    ELSE IF Unwrap(l) \notin DOMAIN h THEN <<>>
    ELSE <<h[Unwrap(l)].elem>> \o Walk(h, h[Unwrap(l)].next, fuel - 1)

RECURSIVE WalkNodes(_, _, _)
WalkNodes(h, l, fuel) ==
    IF l = None \/ fuel = 0 THEN <<>>
    ELSE IF Unwrap(l) \notin DOMAIN h THEN <<>>
    ELSE <<Unwrap(l)>> \o WalkNodes(h, h[Unwrap(l)].next, fuel - 1)

Contents == Walk(heap, head, MaxLen + 1)
Chain == WalkNodes(heap, head, MaxLen + 1)

RECURSIVE Walk1(_, _, _)
Walk1(h, l, fuel) ==
    IF l = Empty \/ fuel = 0 THEN <<>>
    ELSE IF l.node \notin DOMAIN h THEN <<>>
    ELSE <<h[l.node].elem>> \o Walk1(h, h[l.node].next, fuel - 1)

RECURSIVE WalkNodes1(_, _, _)
WalkNodes1(h, l, fuel) ==
    IF l = Empty \/ fuel = 0 THEN <<>>
    ELSE IF l.node \notin DOMAIN h THEN <<>>
    ELSE <<l.node>> \o WalkNodes1(h, h[l.node].next, fuel - 1)

Contents1 == Walk1(heap1, head1, MaxLen + 1)
Chain1 == WalkNodes1(heap1, head1, MaxLen + 1)

----------------------------------------------------------------------------
\* test::basics of both modules, as a script of calls and asserted results.

BasicsScript ==
    << [op |-> "pop",  val |-> None],
       [op |-> "push", val |-> Some(1)],
       [op |-> "push", val |-> Some(2)],
       [op |-> "push", val |-> Some(3)],
       [op |-> "pop",  val |-> Some(3)],
       [op |-> "pop",  val |-> Some(2)],
       [op |-> "push", val |-> Some(4)],
       [op |-> "push", val |-> Some(5)],
       [op |-> "pop",  val |-> Some(5)],
       [op |-> "pop",  val |-> Some(4)],
       [op |-> "pop",  val |-> Some(1)],
       [op |-> "pop",  val |-> None] >>

BasicsOff == [at |-> 0, st |-> "off"]

\* The progress after the call op with argument (push) or result (pop) val:
\* "failed" when the call is the script's next one and an assert_eq! fails.
BasicsStep(b, op, val) ==
    IF b.st /= "running" \/ b.at >= Len(BasicsScript) THEN BasicsOff
    ELSE IF BasicsScript[b.at + 1].op /= op THEN BasicsOff
    ELSE IF BasicsScript[b.at + 1].val = val THEN [at |-> b.at + 1, st |-> "running"]
    ELSE IF op = "pop" THEN [at |-> b.at + 1, st |-> "failed"]
    ELSE BasicsOff

----------------------------------------------------------------------------
\* What the borrow checker admits, from the signatures of second.rs.

\* No reference into the list is live: a &mut self method may be called, and
\* the list may be moved or dropped.
NoBorrow ==
    /\ peeked = None
    /\ pmut = None
    /\ \A i \in IterIds : iters[i] = NoIter
    /\ itermut = NoIter

\* A &self method that may be called whatever reference is live.
NoExclusive_unchecked == TRUE

\* No exclusive reference is live: a &self method may be called.
NoExclusive ==
    /\ pmut = None
    /\ itermut = NoIter

----------------------------------------------------------------------------
\* History records.

Ret(op, arg, val, pre, expect) ==
    [op |-> op, arg |-> arg, val |-> val, pre |-> pre, expect |-> expect]

\* The history entry while a call is being executed.
InCall == Ret("call", None, None, <<>>, None)

\* What the history of pushes and pops says the next pop() returns.
ShadowTop == IF shadow = <<>> THEN None ELSE Some(Head(shadow))
ShadowPop == IF shadow = <<>> THEN <<>> ELSE Tail(shadow)

\* The sequence s with its k-th element replaced by v.
Replaced(s, k, v) == [j \in 1..Len(s) |-> IF j = k THEN v ELSE s[j]]

----------------------------------------------------------------------------
\* second.rs: impl<T> List<T>

\* The client holds a second.rs List<T> and no call is being executed.
ListIdle == module = "second" /\ owner = "list" /\ pc = "idle"

\* A take that copies the link: the place keeps what it held.
TakeLink_copy(l) == [value |-> l, left |-> l]

\* Option::take on a link: the value moved out, and what is left in the place.
TakeLink(l) == [value |-> l, left |-> None]

\* push, line 95: self.head.take(), evaluated before the Box is made.
push_take(elem) ==
    /\ ListIdle /\ NoBorrow
    /\ Cardinality(DOMAIN heap) < MaxLen
    /\ local' = [fn |-> "push", elem |-> elem,
                 next |-> TakeLink(head).value, pre |-> Contents]
    /\ head' = TakeLink(head).left
    /\ pc' = "push_taken"
    /\ ret' = InCall
    /\ UNCHANGED <<module, heap, owner, shadow, basics>>
    /\ UNCHANGED <<first_vars, borrow_vars, iter_hist, drop_hist>>

\* push, lines 93-96: the Node the new Box holds.
push_node(elem, next) == [elem |-> elem, next |-> next]

\* push, lines 93-96: Box::new(Node { elem, next }).
push_box ==
    /\ pc = "push_taken"
    /\ LET n == BoxNew(heap) IN
        /\ heap' = Store(heap, n, push_node(local.elem, local.next))
        /\ local' = [fn |-> "push", elem |-> local.elem, new_node |-> n,
                     pre |-> local.pre]
    /\ pc' = "push_boxed"
    /\ UNCHANGED <<module, head, owner, ret, shadow, basics>>
    /\ UNCHANGED <<first_vars, borrow_vars, iter_hist, drop_hist>>

\* push, line 98: self.head = Some(new_node).
push_install ==
    /\ pc = "push_boxed"
    /\ head' = Some(local.new_node)
    /\ pc' = "idle"
    /\ local' = NoLocal
    /\ ret' = Ret("push", Some(local.elem), None, local.pre, None)
    /\ shadow' = <<local.elem>> \o shadow
    /\ basics' = BasicsStep(basics, "push", Some(local.elem))
    /\ UNCHANGED <<module, heap, owner>>
    /\ net' = net + 1
    /\ UNCHANGED <<first_vars, borrow_vars, iter_hist, released, loops, depth>>

\* pop, line 102: self.head.take(). caller is "pop" for a call of the client and
\* "IntoIter::next" for the call of line 28.
pop_take(caller) ==
    /\ pc = "idle"
    /\ local' = [fn |-> caller, taken |-> TakeLink(head).value, pre |-> Contents]
    /\ head' = TakeLink(head).left
    /\ pc' = "pop_taken"
    /\ ret' = InCall
    /\ UNCHANGED <<module, heap, owner, shadow, basics>>
    /\ UNCHANGED <<first_vars, borrow_vars, iter_hist, drop_hist>>

\* The client calls list.pop().
pop_call == ListIdle /\ NoBorrow /\ pop_take("pop")

\* A pop that loses the rest of the chain: the head is left absent.
pop_head_lost(node) == None

\* pop, line 103: the link installed as head, from the node taken.
pop_head(node) == node.next

\* pop, line 104: the element returned, from the node taken.
pop_elem(node) == node.elem

\* A pop that returns a default element, not none, on an empty stack.
pop_result_default(h, taken) ==
    IF taken = None THEN Some(CHOOSE v \in Values : TRUE)
    ELSE Some(pop_elem(h[Unwrap(taken)]))

\* pop, lines 102-105: Option::map: none for none, else what the closure returns.
pop_result(h, taken) ==
    IF taken = None THEN None ELSE Some(pop_elem(h[Unwrap(taken)]))

\* pop, lines 102-105: .map(|node| { self.head = node.next; node.elem }); the
\* Box, both fields moved out of it, is deallocated.
pop_map ==
    /\ pc = "pop_taken"
    /\ LET result == pop_result(heap, local.taken) IN
        /\ IF local.taken = None
           THEN UNCHANGED <<head, heap>>
           ELSE /\ head' = pop_head(heap[Unwrap(local.taken)])
                /\ heap' = Free(heap, {Unwrap(local.taken)})
        /\ ret' = Ret(local.fn, None, result, local.pre, ShadowTop)
        /\ net' = IF result = None THEN net ELSE net - 1
        /\ IF local.fn = "pop"
           THEN /\ basics' = BasicsStep(basics, "pop", result)
                /\ out' = out
           ELSE /\ basics' = BasicsOff
                /\ out' = Append(out, result)
    /\ shadow' = ShadowPop
    /\ pc' = "idle"
    /\ local' = NoLocal
    /\ UNCHANGED <<module, owner, iter_out, snap>>
    /\ UNCHANGED <<first_vars, borrow_vars, released, loops, depth>>

\* peek, line 109: self.head.as_ref().map(|node| &node.elem). A reference to
\* the elem of a node is the node's identity.
peek_ref(hd) == IF hd = None THEN None ELSE Some(Unwrap(hd))

\* A peek written with take() for as_ref(): it empties the head.
peek_taking ==
    /\ ListIdle /\ NoExclusive
    /\ peeked' = peek_ref(head)
    /\ head' = None
    /\ ret' = Ret("peek", None, peek_ref(head), Contents, ShadowTop)
    /\ basics' = BasicsOff
    /\ UNCHANGED <<module, heap, owner, pc, local, pmut, iters, itermut, shadow>>
    /\ UNCHANGED <<first_vars, iter_hist, drop_hist>>

\* peek, lines 108-110.
peek ==
    /\ ListIdle /\ NoExclusive
    /\ peeked' = peek_ref(head)
    /\ ret' = Ret("peek", None, peek_ref(head), Contents, ShadowTop)
    /\ basics' = BasicsOff
    /\ UNCHANGED <<module, head, heap, owner, pc, local, pmut, iters, itermut, shadow>>
    /\ UNCHANGED <<first_vars, iter_hist, drop_hist>>

\* The client lets go of the reference peek() returned.
peek_release ==
    /\ ListIdle /\ peeked /= None
    /\ peeked' = None
    /\ UNCHANGED <<module, head, heap, owner, pc, local, pmut, iters, itermut>>
    /\ UNCHANGED <<ret, shadow, basics>>
    /\ UNCHANGED <<first_vars, iter_hist, drop_hist>>

\* peek_mut, line 113: self.head.as_mut().map(|node| &mut node.elem).
peek_mut_ref(hd) == IF hd = None THEN None ELSE Some(Unwrap(hd))

\* peek_mut, lines 112-114.
peek_mut ==
    /\ ListIdle /\ NoBorrow
    /\ pmut' = peek_mut_ref(head)
    /\ ret' = Ret("peek_mut", None, peek_mut_ref(head), Contents, ShadowTop)
    /\ basics' = BasicsOff
    /\ UNCHANGED <<module, head, heap, owner, pc, local, peeked, iters, itermut, shadow>>
    /\ UNCHANGED <<first_vars, iter_hist, drop_hist>>

\* A write that lands in a copy of the element: the node keeps its value.
WriteElem_lost(h, r, v) == h

\* The heap after *r = v, r a &mut T to the elem of node r.
WriteElem(h, r, v) == [h EXCEPT ![r].elem = v]

\* test::peek, line 193: the client writes v through the reference peek_mut()
\* returned (.map(|value| *value = v)).
peek_mut_write(v) ==
    /\ ListIdle /\ pmut /= None
    /\ heap' = WriteElem(heap, Unwrap(pmut), v)
    /\ ret' = Ret("peek_mut_write", Some(v), None, Contents, None)
    /\ shadow' = Replaced(shadow, 1, v)
    /\ basics' = BasicsOff
    /\ UNCHANGED <<module, head, owner, pc, local>>
    /\ UNCHANGED <<first_vars, borrow_vars, iter_hist, drop_hist>>

\* The client lets go of the reference peek_mut() returned.
peek_mut_release ==
    /\ ListIdle /\ pmut /= None
    /\ pmut' = None
    /\ UNCHANGED <<module, head, heap, owner, pc, local, peeked, iters, itermut>>
    /\ UNCHANGED <<ret, shadow, basics>>
    /\ UNCHANGED <<first_vars, iter_hist, drop_hist>>

----------------------------------------------------------------------------
\* second.rs: IntoIter

\* into_iter, lines 116-118: the List is moved into the IntoIter.
into_iter ==
    /\ ListIdle /\ NoBorrow
    /\ owner' = "into_iter"
    /\ snap' = Contents
    /\ out' = <<>>
    /\ ret' = Ret("into_iter", None, None, Contents, None)
    /\ basics' = BasicsOff
    /\ UNCHANGED <<module, head, heap, pc, local, shadow, iter_out>>
    /\ UNCHANGED <<first_vars, borrow_vars, drop_hist>>

\* A next() that reads the head without popping it.
IntoIter_next_peeking ==
    /\ module = "second" /\ owner = "into_iter" /\ pc = "idle"
    /\ Len(out) < Len(snap) + MaxExtra
    /\ out' = Append(out, IF head = None THEN None
                          ELSE Some(heap[Unwrap(head)].elem))
    /\ ret' = Ret("IntoIter::next", None, None, Contents, None)
    /\ UNCHANGED <<module, head, heap, owner, pc, local, shadow, basics>>
    /\ UNCHANGED <<iter_out, snap>>
    /\ UNCHANGED <<first_vars, borrow_vars, drop_hist>>

\* IntoIter::next, lines 26-29: self.0.pop().
IntoIter_next ==
    /\ module = "second" /\ owner = "into_iter"
    /\ Len(out) < Len(snap) + MaxExtra
    /\ pop_take("IntoIter::next")

----------------------------------------------------------------------------
\* second.rs: Iter

\* Option<Box<Node>>::as_ref().map(|node| &**node) (lines 60, 124) and
\* as_mut().map(|node| &mut **node) (lines 75, 130): the reference to the node
\* the link owns.
NodeRef(l) == IF l = None THEN None ELSE Some(Unwrap(l))

\* The history entry of a call on an Iter made on the chain pre: the same for
\* each of them, as their results are kept in iter_out.
IterRet(pre) == Ret("Iter", None, None, pre, None)

\* An iter() that shares the cursor of an Iter that is held: it starts where
\* that one has got to.
iter_resuming(i) ==
    /\ ListIdle /\ NoExclusive
    /\ iters[i] = NoIter
    /\ LET held == {j \in IterIds : iters[j] /= NoIter}
           start == IF held = {} THEN NodeRef(head)
                    ELSE iters[CHOOSE j \in held : TRUE].next
       IN iters' = [iters EXCEPT ![i] = [live |-> TRUE, next |-> start]]
    /\ iter_out' = [iter_out EXCEPT ![i] = [snap |-> Contents, res |-> <<>>]]
    /\ ret' = IterRet(Contents)
    /\ basics' = BasicsOff
    /\ UNCHANGED <<module, head, heap, owner, pc, local, peeked, pmut, itermut>>
    /\ UNCHANGED <<shadow, out, snap>>
    /\ UNCHANGED <<first_vars, drop_hist>>

\* iter, lines 122-126.
iter(i) ==
    /\ ListIdle /\ NoExclusive
    /\ iters[i] = NoIter
    /\ iters' = [iters EXCEPT ![i] = [live |-> TRUE, next |-> NodeRef(head)]]
    /\ iter_out' = [iter_out EXCEPT ![i] = [snap |-> Contents, res |-> <<>>]]
    /\ ret' = IterRet(Contents)
    /\ basics' = BasicsOff
    /\ UNCHANGED <<module, head, heap, owner, pc, local, peeked, pmut, itermut>>
    /\ UNCHANGED <<shadow, out, snap>>
    /\ UNCHANGED <<first_vars, drop_hist>>

\* A cursor that steps over the node after the one it was at.
Iter_advance_skip(node) ==
    IF node.next = None THEN None ELSE NodeRef(heap[Unwrap(node.next)].next)

\* Iter::next, line 60: the cursor after the call, from the node it was at.
Iter_advance(node) == NodeRef(node.next)

\* Iter::next, lines 58-63: self.next.map(|node| { self.next = ...; &node.elem }).
Iter_next(i) ==
    /\ ListIdle
    /\ iters[i] /= NoIter
    /\ Len(iter_out[i].res) < Len(iter_out[i].snap) + MaxExtra
    /\ IF iters[i].next = None
       THEN /\ iters' = iters
            /\ iter_out' = [iter_out EXCEPT ![i].res = Append(@, None)]
       ELSE /\ iters' = [iters EXCEPT
                           ![i].next = Iter_advance(heap[Unwrap(iters[i].next)])]
            /\ iter_out' = [iter_out EXCEPT
                              ![i].res = Append(@, Some(Unwrap(iters[i].next)))]
    /\ ret' = IterRet(iter_out[i].snap)
    /\ UNCHANGED <<module, head, heap, owner, pc, local, peeked, pmut, itermut>>
    /\ UNCHANGED <<shadow, basics, out, snap>>
    /\ UNCHANGED <<first_vars, drop_hist>>

\* The client lets go of the Iter of slot i and of the references it yielded.
\* The chain the iterator was made on is kept in the history entry.
Iter_release(i) ==
    /\ ListIdle
    /\ iters[i] /= NoIter
    /\ iters' = [iters EXCEPT ![i] = NoIter]
    /\ iter_out' = [iter_out EXCEPT ![i] = [snap |-> <<>>, res |-> <<>>]]
    /\ ret' = IterRet(iter_out[i].snap)
    /\ UNCHANGED <<module, head, heap, owner, pc, local, peeked, pmut, itermut>>
    /\ UNCHANGED <<shadow, basics, out, snap>>
    /\ UNCHANGED <<first_vars, drop_hist>>

----------------------------------------------------------------------------
\* second.rs: IterMut

\* iter_mut, lines 128-132.
iter_mut ==
    /\ ListIdle /\ NoBorrow
    /\ itermut' = [live |-> TRUE, next |-> NodeRef(head)]
    /\ out' = <<>>
    /\ ret' = Ret("iter_mut", None, None, Contents, None)
    /\ basics' = BasicsOff
    /\ UNCHANGED <<module, head, heap, owner, pc, local, peeked, pmut, iters>>
    /\ UNCHANGED <<shadow, iter_out, snap>>
    /\ UNCHANGED <<first_vars, drop_hist>>

\* A cursor that is copied, not taken: the reference stays in it.
IterMut_take_copy(cursor) == [value |-> cursor, left |-> cursor]

\* IterMut::next, line 74: self.next.take(): the reference moved out of the
\* cursor, and what is left in the cursor.
IterMut_take(cursor) == [value |-> cursor, left |-> None]

\* IterMut::next, line 74: self.next.take().
IterMut_next_take ==
    /\ ListIdle
    /\ itermut /= NoIter
    /\ Len(out) < Len(Contents) + MaxExtra
    /\ local' = [fn |-> "IterMut::next", node |-> IterMut_take(itermut.next).value,
                 pre |-> Contents]
    /\ itermut' = [itermut EXCEPT !.next = IterMut_take(itermut.next).left]
    /\ pc' = "itermut_taken"
    /\ UNCHANGED <<module, head, heap, owner, peeked, pmut, iters>>
    /\ ret' = InCall
    /\ UNCHANGED <<shadow, basics>>
    /\ UNCHANGED <<first_vars, iter_hist, drop_hist>>

\* A next() that, at the end of the chain, puts the cursor back at the head.
IterMut_next_none_restart ==
    /\ pc = "itermut_taken"
    /\ local.node = None
    /\ itermut' = [itermut EXCEPT !.next = NodeRef(head)]
    /\ out' = Append(out, None)
    /\ ret' = Ret("IterMut::next", None, None, local.pre, None)
    /\ pc' = "idle"
    /\ local' = NoLocal
    /\ UNCHANGED <<module, head, heap, owner, shadow, basics, iter_out, snap>>
    /\ UNCHANGED <<first_vars, peeked, pmut, iters, drop_hist>>

\* IterMut::next, line 74: .map on None: the closure is not run, None is returned.
IterMut_next_none ==
    /\ pc = "itermut_taken"
    /\ local.node = None
    /\ out' = Append(out, None)
    /\ ret' = Ret("IterMut::next", None, None, local.pre, None)
    /\ pc' = "idle"
    /\ local' = NoLocal
    /\ UNCHANGED <<module, head, heap, owner, shadow, basics, iter_out, snap>>
    /\ UNCHANGED <<first_vars, borrow_vars, drop_hist>>

\* A cursor that steps over the node after the one taken.
IterMut_advance_skip(node) ==
    IF node.next = None THEN None ELSE NodeRef(heap[Unwrap(node.next)].next)

\* IterMut::next, line 75: the cursor after the call, from the node taken.
IterMut_advance(node) == NodeRef(node.next)

\* IterMut::next, line 75: self.next = node.next.as_mut().map(|node| &mut **node).
IterMut_next_advance ==
    /\ pc = "itermut_taken"
    /\ local.node /= None
    /\ itermut' = [itermut EXCEPT !.next = IterMut_advance(heap[Unwrap(local.node)])]
    /\ pc' = "itermut_advanced"
    /\ UNCHANGED <<module, head, heap, owner, local, peeked, pmut, iters>>
    /\ UNCHANGED <<ret, shadow, basics>>
    /\ UNCHANGED <<first_vars, iter_hist, drop_hist>>

\* IterMut::next, line 76: &mut node.elem is returned; node is consumed by it.
IterMut_next_yield ==
    /\ pc = "itermut_advanced"
    /\ out' = Append(out, Some(Unwrap(local.node)))
    /\ ret' = Ret("IterMut::next", None, Some(Unwrap(local.node)), local.pre, None)
    /\ pc' = "idle"
    /\ local' = NoLocal
    /\ UNCHANGED <<module, head, heap, owner, shadow, basics, iter_out, snap>>
    /\ UNCHANGED <<first_vars, borrow_vars, drop_hist>>

\* The client writes v through the k-th reference the IterMut yielded.
IterMut_write(k, v) ==
    /\ ListIdle
    /\ itermut /= NoIter
    /\ k \in 1..Len(out)
    /\ out[k] /= None
    /\ heap' = WriteElem(heap, Unwrap(out[k]), v)
    /\ ret' = Ret("IterMut_write", <<k, v>>, None, <<>>, None)
    /\ shadow' = Replaced(shadow, k, v)
    /\ UNCHANGED <<module, head, owner, pc, local, basics>>
    /\ UNCHANGED <<first_vars, borrow_vars, iter_hist, drop_hist>>

\* The client lets go of the IterMut and of the references it yielded.
IterMut_release ==
    /\ ListIdle
    /\ itermut /= NoIter
    /\ itermut' = NoIter
    /\ out' = <<>>
    /\ ret' = Ret("IterMut_release", None, None, Contents, None)
    /\ UNCHANGED <<module, head, heap, owner, pc, local, peeked, pmut, iters>>
    /\ UNCHANGED <<shadow, basics, iter_out, snap>>
    /\ UNCHANGED <<first_vars, drop_hist>>

----------------------------------------------------------------------------
\* second.rs: impl<T> Drop for List<T>

\* The destructor the compiler derives for Box<Node<T>> from struct Node
\* (lines 15-18): it drops the node's fields, and with next the Box next owns,
\* nested inside the release of n, before n's storage is deallocated. The nodes
\* released by dropping the Box of n, outermost first: as many as the nesting
\* of releases is deep.
RECURSIVE DropGlue(_, _, _)
DropGlue(h, n, fuel) ==
    IF fuel = 0 \/ n \notin DOMAIN h THEN <<>>
    ELSE IF h[n].next = None THEN <<n>>
    ELSE <<n>> \o DropGlue(h, Unwrap(h[n].next), fuel - 1)

\* The nodes released by dropping the link l.
DropLink(h, l) == IF l = None THEN <<>> ELSE DropGlue(h, Unwrap(l), MaxLen + 1)

Range(s) == {s[j] : j \in 1..Len(s)}
Max(a, b) == IF a >= b THEN a ELSE b

\* drop, line 137: let mut cur_link = self.head.take(). The List goes out of
\* scope in the client, or the IntoIter that holds it does.
drop_take ==
    /\ module = "second" /\ pc = "idle"
    /\ \/ owner = "list" /\ NoBorrow
       \/ owner = "into_iter"
    /\ local' = [fn |-> "drop", cur_link |-> TakeLink(head).value,
                 nodes |-> Chain, pre |-> Contents]
    /\ head' = TakeLink(head).left
    /\ pc' = "drop_loop"
    /\ released' = <<>>
    /\ loops' = 0
    /\ depth' = 0
    /\ net' = net
    /\ basics' = BasicsOff
    /\ ret' = InCall
    /\ UNCHANGED <<module, heap, owner, shadow>>
    /\ UNCHANGED <<first_vars, borrow_vars, iter_hist>>

\* A loop that reads the node's next link and leaves it in the node.
drop_next_take_keep(node) == [value |-> node.next, left |-> node.next]

\* drop, line 139: boxed_node.next.take(): the link moved out of the node, and
\* what is left in the node.
drop_next_take(node) == [value |-> node.next, left |-> None]

\* drop, lines 138-139: while let Some(mut boxed_node) = cur_link
\*                      { cur_link = boxed_node.next.take();
drop_loop_take ==
    /\ pc = "drop_loop"
    /\ local.fn = "drop"
    /\ local.cur_link /= None
    /\ LET b == Unwrap(local.cur_link) IN
        /\ local' = [fn |-> "drop", cur_link |-> drop_next_take(heap[b]).value,
                     nodes |-> local.nodes, pre |-> local.pre, boxed_node |-> b]
        /\ heap' = [heap EXCEPT ![b].next = drop_next_take(heap[b]).left]
    /\ pc' = "drop_body_end"
    /\ UNCHANGED <<module, head, owner, ret, shadow, basics>>
    /\ UNCHANGED <<first_vars, borrow_vars, iter_hist, drop_hist>>

\* A body that ends with the Box forgotten: its node is never released.
drop_loop_release_forget ==
    /\ pc = "drop_body_end"
    /\ local.fn = "drop"
    /\ loops' = loops + 1
    /\ local' = [fn |-> "drop", cur_link |-> local.cur_link,
                 nodes |-> local.nodes, pre |-> local.pre]
    /\ pc' = "drop_loop"
    /\ UNCHANGED <<module, head, heap, owner, ret, shadow, basics>>
    /\ UNCHANGED <<released, depth, net>>
    /\ UNCHANGED <<first_vars, borrow_vars, iter_hist>>

\* drop, line 140: the body ends and boxed_node goes out of scope: its Box is
\* dropped, with whatever its node still owns.
drop_loop_release ==
    /\ pc = "drop_body_end"
    /\ local.fn = "drop"
    /\ LET gone == DropGlue(heap, local.boxed_node, MaxLen + 1) IN
        /\ heap' = Free(heap, Range(gone))
        /\ released' = released \o gone
        /\ depth' = Max(depth, Len(gone))
    /\ loops' = loops + 1
    /\ net' = net
    /\ local' = [fn |-> "drop", cur_link |-> local.cur_link,
                 nodes |-> local.nodes, pre |-> local.pre]
    /\ pc' = "drop_loop"
    /\ UNCHANGED <<module, head, owner, ret, shadow, basics>>
    /\ UNCHANGED <<first_vars, borrow_vars, iter_hist>>

\* drop, lines 138 and 141: cur_link is None, the loop and drop end; the
\* compiler then drops the field head with what it still owns.
drop_exit ==
    /\ pc = "drop_loop"
    /\ local.fn = "drop"
    /\ local.cur_link = None
    /\ LET gone == DropLink(heap, head) IN
        /\ heap' = Free(heap, Range(gone))
        /\ released' = released \o gone
        /\ depth' = Max(depth, Len(gone))
    /\ owner' = "dropped"
    /\ pc' = "idle"
    /\ local' = NoLocal
    /\ ret' = Ret("drop", local.nodes, None, local.pre, None)
    /\ shadow' = <<>>
    /\ UNCHANGED <<module, head, loops, net, basics>>
    /\ UNCHANGED <<first_vars, borrow_vars, iter_hist>>

----------------------------------------------------------------------------
\* first.rs: impl List, impl Drop for List

\* The client holds a first.rs List and no call is being executed.
ListIdle1 == module = "first" /\ owner = "list" /\ pc = "idle"

\* mem::replace(dest, src): the value moved out of dest, and what is left in it.
MemReplace(dest, src) == [value |-> dest, left |-> src]

\* push, line 112: mem::replace(&mut self.head, Link::Empty).
first_push_replace(elem) ==
    /\ ListIdle1
    /\ Cardinality(DOMAIN heap1) < MaxLen
    /\ local' = [fn |-> "push", elem |-> elem,
                 next |-> MemReplace(head1, Empty).value, pre |-> Contents1]
    /\ head1' = MemReplace(head1, Empty).left
    /\ pc' = "first_push_replaced"
    /\ ret' = InCall
    /\ UNCHANGED <<module, head, heap, heap1, owner, shadow, basics>>
    /\ UNCHANGED <<borrow_vars, iter_hist, drop_hist>>

\* A push whose node does not take over the chain: its next is Empty.
first_push_node_detached(elem, next) == [elem |-> elem, next |-> Empty]

\* push, lines 110-113: the Node the new Box holds.
first_push_node(elem, next) == [elem |-> elem, next |-> next]

\* push, lines 110-113: Box::new(Node { elem, next }).
first_push_box ==
    /\ pc = "first_push_replaced"
    /\ LET n == BoxNew(heap1) IN
        /\ heap1' = Store(heap1, n, first_push_node(local.elem, local.next))
        /\ local' = [fn |-> "push", elem |-> local.elem, new_node |-> n,
                     pre |-> local.pre]
    /\ pc' = "first_push_boxed"
    /\ UNCHANGED <<module, head, heap, head1, owner, ret, shadow, basics>>
    /\ UNCHANGED <<borrow_vars, iter_hist, drop_hist>>

\* push, line 115: self.head = Link::More(new_node).
first_push_install ==
    /\ pc = "first_push_boxed"
    /\ head1' = More(local.new_node)
    /\ pc' = "idle"
    /\ local' = NoLocal
    /\ ret' = Ret("push", Some(local.elem), None, local.pre, None)
    /\ shadow' = <<local.elem>> \o shadow
    /\ basics' = BasicsStep(basics, "push", Some(local.elem))
    /\ UNCHANGED <<module, head, heap, heap1, owner>>
    /\ net' = net + 1
    /\ UNCHANGED <<borrow_vars, iter_hist, released, loops, depth>>

\* pop, line 130: mem::replace(&mut self.head, Link::Empty), the match's scrutinee.
first_pop_replace ==
    /\ ListIdle1
    /\ local' = [fn |-> "pop", taken |-> MemReplace(head1, Empty).value,
                 pre |-> Contents1]
    /\ head1' = MemReplace(head1, Empty).left
    /\ pc' = "first_pop_replaced"
    /\ ret' = InCall
    /\ UNCHANGED <<module, head, heap, heap1, owner, shadow, basics>>
    /\ UNCHANGED <<borrow_vars, iter_hist, drop_hist>>

\* pop, line 133: the link installed as head, from the node taken.
first_pop_head(node) == node.next

\* pop, lines 131-135: the arms of the match; in the More arm the Box, both
\* fields moved out of it, is deallocated.
first_pop_match ==
    /\ pc = "first_pop_replaced"
    /\ LET result == IF local.taken = Empty THEN None
                     ELSE Some(heap1[local.taken.node].elem)
       IN
        /\ IF local.taken = Empty
           THEN UNCHANGED <<head1, heap1>>
           ELSE /\ head1' = first_pop_head(heap1[local.taken.node])
                /\ heap1' = Free(heap1, {local.taken.node})
        /\ ret' = Ret("pop", None, result, local.pre, ShadowTop)
        /\ net' = IF result = None THEN net ELSE net - 1
        /\ basics' = BasicsStep(basics, "pop", result)
    /\ shadow' = ShadowPop
    /\ pc' = "idle"
    /\ local' = NoLocal
    /\ UNCHANGED <<module, head, heap, owner>>
    /\ UNCHANGED <<borrow_vars, iter_hist, released, loops, depth>>

\* The destructor the compiler derives for Box<Node> from struct Node (lines
\* 65-68) and enum Link (lines 60-63); see the comment of lines 147-149.
RECURSIVE DropGlue1(_, _, _)
DropGlue1(h, n, fuel) ==
    IF fuel = 0 \/ n \notin DOMAIN h THEN <<>>
    ELSE IF h[n].next = Empty THEN <<n>>
    ELSE <<n>> \o DropGlue1(h, h[n].next.node, fuel - 1)

\* The nodes released by dropping the link l.
DropLink1(h, l) == IF l = Empty THEN <<>> ELSE DropGlue1(h, l.node, MaxLen + 1)

\* drop, line 143: let mut cur_link = mem::replace(&mut self.head, Link::Empty).
first_drop_replace ==
    /\ ListIdle1
    /\ local' = [fn |-> "first_drop", cur_link |-> MemReplace(head1, Empty).value,
                 nodes |-> Chain1, pre |-> Contents1]
    /\ head1' = MemReplace(head1, Empty).left
    /\ pc' = "drop_loop"
    /\ released' = <<>>
    /\ loops' = 0
    /\ depth' = 0
    /\ net' = net
    /\ basics' = BasicsOff
    /\ ret' = InCall
    /\ UNCHANGED <<module, head, heap, heap1, owner, shadow>>
    /\ UNCHANGED <<borrow_vars, iter_hist>>

\* A loop that reads the node's next link and leaves it in the node.
first_drop_next_replace_keep(node) == [value |-> node.next, left |-> node.next]

\* drop, line 146: mem::replace(&mut boxed_node.next, Link::Empty): the link
\* moved out of the node, and what is left in the node.
first_drop_next_replace(node) == MemReplace(node.next, Empty)

\* drop, lines 145-146: while let Link::More(mut boxed_node) = cur_link
\*                      { cur_link = mem::replace(&mut boxed_node.next, Link::Empty);
first_drop_loop_replace ==
    /\ pc = "drop_loop"
    /\ local.fn = "first_drop"
    /\ local.cur_link /= Empty
    /\ LET b == local.cur_link.node IN
        /\ local' = [fn |-> "first_drop",
                     cur_link |-> first_drop_next_replace(heap1[b]).value,
                     nodes |-> local.nodes, pre |-> local.pre, boxed_node |-> b]
        /\ heap1' = [heap1 EXCEPT ![b].next = first_drop_next_replace(heap1[b]).left]
    /\ pc' = "drop_body_end"
    /\ UNCHANGED <<module, head, heap, head1, owner, ret, shadow, basics>>
    /\ UNCHANGED <<borrow_vars, iter_hist, drop_hist>>

\* drop, lines 147-150: the body ends and boxed_node goes out of scope: its Box
\* is dropped, with whatever its node still owns.
first_drop_loop_release ==
    /\ pc = "drop_body_end"
    /\ local.fn = "first_drop"
    /\ LET gone == DropGlue1(heap1, local.boxed_node, MaxLen + 1) IN
        /\ heap1' = Free(heap1, Range(gone))
        /\ released' = released \o gone
        /\ depth' = Max(depth, Len(gone))
    /\ loops' = loops + 1
    /\ net' = net
    /\ local' = [fn |-> "first_drop", cur_link |-> local.cur_link,
                 nodes |-> local.nodes, pre |-> local.pre]
    /\ pc' = "drop_loop"
    /\ UNCHANGED <<module, head, heap, head1, owner, ret, shadow, basics>>
    /\ UNCHANGED <<borrow_vars, iter_hist>>

\* drop, lines 145 and 151: cur_link is Empty, the loop and drop end; the
\* compiler then drops the field head with what it still owns.
first_drop_exit ==
    /\ pc = "drop_loop"
    /\ local.fn = "first_drop"
    /\ local.cur_link = Empty
    /\ LET gone == DropLink1(heap1, head1) IN
        /\ heap1' = Free(heap1, Range(gone))
        /\ released' = released \o gone
        /\ depth' = Max(depth, Len(gone))
    /\ owner' = "dropped"
    /\ pc' = "idle"
    /\ local' = NoLocal
    /\ ret' = Ret("drop", local.nodes, None, local.pre, None)
    /\ shadow' = <<>>
    /\ UNCHANGED <<module, head, heap, head1, loops, net, basics>>
    /\ UNCHANGED <<borrow_vars, iter_hist>>

----------------------------------------------------------------------------
\* The program: a client that makes a List of one of the two modules with
\* new(), calls its methods in any order the borrow checker admits, and lets
\* it go out of scope.

\* The state new() leaves (first.rs lines 85-87, second.rs lines 84-86), with
\* no call made yet.
Fresh(m) ==
    /\ module = m
    /\ head = None
    /\ heap = <<>>
    /\ head1 = Empty
    /\ heap1 = <<>>
    /\ owner = "list"
    /\ pc = "idle"
    /\ local = NoLocal
    /\ peeked = None
    /\ pmut = None
    /\ iters = [i \in IterIds |-> NoIter]
    /\ itermut = NoIter
    /\ ret = Ret("new", None, None, <<>>, None)
    /\ shadow = <<>>
    /\ basics = [at |-> 0, st |-> "running"]
    /\ out = <<>>
    /\ iter_out = [i \in IterIds |-> [snap |-> <<>>, res |-> <<>>]]
    /\ snap = <<>>
    /\ released = <<>>
    /\ loops = 0
    /\ depth = 0
    /\ net = 0

Init == \E m \in {"first", "second"} : Fresh(m)

\* List::new() after the previous list is gone.
new ==
    /\ owner = "dropped"
    /\ module' \in {"first", "second"}
    /\ head' = None
    /\ heap' = <<>>
    /\ head1' = Empty
    /\ heap1' = <<>>
    /\ owner' = "list"
    /\ ret' = Ret("new", None, None, <<>>, None)
    /\ basics' = [at |-> 0, st |-> "running"]
    /\ out' = <<>>
    /\ snap' = <<>>
    /\ released' = <<>>
    /\ loops' = 0
    /\ depth' = 0
    /\ net' = 0
    /\ UNCHANGED <<pc, local, shadow, iter_out>>
    /\ UNCHANGED borrow_vars

Next ==
    \/ \E e \in Values : push_take(e)
    \/ push_box
    \/ push_install
    \/ pop_call
    \/ pop_map
    \/ peek
    \/ peek_release
    \/ peek_mut
    \/ \E v \in Values : peek_mut_write(v)
    \/ peek_mut_release
    \/ into_iter
    \/ IntoIter_next
    \/ \E i \in IterIds : iter(i)
    \/ \E i \in IterIds : Iter_next(i)
    \/ \E i \in IterIds : Iter_release(i)
    \/ iter_mut
    \/ IterMut_next_take
    \/ IterMut_next_none
    \/ IterMut_next_advance
    \/ IterMut_next_yield
    \/ \E k \in 1..MaxLen, v \in Values : IterMut_write(k, v)
    \/ IterMut_release
    \/ drop_take
    \/ drop_loop_take
    \/ drop_loop_release
    \/ drop_exit
    \/ \E e \in Values : first_push_replace(e)
    \/ first_push_box
    \/ first_push_install
    \/ first_pop_replace
    \/ first_pop_match
    \/ first_drop_replace
    \/ first_drop_loop_replace
    \/ first_drop_loop_release
    \/ first_drop_exit
    \/ new

Spec == Init /\ [][Next]_vars

----------------------------------------------------------------------------
\* The two modules side by side: a client that holds a first.rs List and a
\* second.rs List<i32>, both made with new(), and makes every call on both.
\* Each action is the whole of the two methods.

\* list.push(elem) on both: first.rs lines 89-116, second.rs lines 88-99.
both_push(elem) ==
    /\ module = "both" /\ pc = "idle"
    /\ Cardinality(DOMAIN heap) < MaxLen
    /\ Cardinality(DOMAIN heap1) < MaxLen
    /\ LET n == BoxNew(heap)
           n1 == BoxNew(heap1)
       IN
        /\ heap' = Store(heap, n, push_node(elem, TakeLink(head).value))
        /\ head' = Some(n)
        /\ heap1' = Store(heap1, n1,
                          first_push_node(elem, MemReplace(head1, Empty).value))
        /\ head1' = More(n1)
    /\ ret' = Ret("push", Some(elem), None, Contents, None)
    /\ shadow' = <<elem>> \o shadow
    /\ basics' = BasicsStep(basics, "push", Some(elem))
    /\ UNCHANGED <<module, owner, pc, local>>
    /\ net' = net + 1
    /\ UNCHANGED <<borrow_vars, iter_hist, released, loops, depth>>

\* list.pop() on both: first.rs lines 118-137, second.rs lines 101-106. The
\* history entry holds the result of second.rs in val and the one of first.rs
\* in expect.
both_pop ==
    /\ module = "both" /\ pc = "idle"
    /\ LET taken == TakeLink(head).value
           taken1 == MemReplace(head1, Empty).value
           result == pop_result(heap, taken)
           result1 == IF taken1 = Empty THEN None
                      ELSE Some(heap1[taken1.node].elem)
       IN
        /\ IF taken = None
           THEN /\ head' = TakeLink(head).left
                /\ heap' = heap
           ELSE /\ head' = pop_head(heap[Unwrap(taken)])
                /\ heap' = Free(heap, {Unwrap(taken)})
        /\ IF taken1 = Empty
           THEN /\ head1' = MemReplace(head1, Empty).left
                /\ heap1' = heap1
           ELSE /\ head1' = first_pop_head(heap1[taken1.node])
                /\ heap1' = Free(heap1, {taken1.node})
        /\ ret' = Ret("pop", None, result, Contents, result1)
        /\ net' = IF result = None THEN net ELSE net - 1
        /\ basics' = BasicsStep(basics, "pop", result)
    /\ shadow' = ShadowPop
    /\ UNCHANGED <<module, owner, pc, local>>
    /\ UNCHANGED <<borrow_vars, iter_hist, released, loops, depth>>

InitBoth == Fresh("both")

NextBoth ==
    \/ \E e \in Values : both_push(e)
    \/ both_pop

SpecBoth == InitBoth /\ [][NextBoth]_vars

----------------------------------------------------------------------------
\* The properties checked.

Second == module = "second"

\* The k-th entry an iterator over the chain of nodes c must yield: a reference
\* to the k-th node's element, and none once the chain is used up.
Yield(c, k) == IF k <= Len(c) THEN Some(c[k]) ELSE None

\* C1: second.rs: every pop() returns the most recently pushed element not yet
\* popped, or none when there is none: the result is the top of the history of
\* pushes not yet popped, between calls the chain holds exactly that history,
\* newest first, and no assertion of test::basics (pop none; push 1, 2, 3;
\* pops 3, 2; push 4, 5; pops 5, 4, 1, none) fails.
C1_Lifo ==
    Second =>
        /\ ret.op = "pop" => ret.val = ret.expect
        /\ (pc = "idle" /\ owner = "list") => Contents = shadow
        /\ basics.st /= "failed"

C1_Witness ==
    /\ Second
    /\ basics = [at |-> Len(BasicsScript), st |-> "running"]
    /\ ret.op = "pop" /\ ret.val = None

\* C2: second.rs: on an empty stack pop(), peek() and peek_mut() return none
\* and leave the stack empty.
C2_EmptyNone ==
    (Second /\ ret.op \in {"pop", "peek", "peek_mut"} /\ ret.pre = <<>>) =>
        /\ ret.val = None
        /\ head = None
        /\ DOMAIN heap = {}

C2_Witness ==
    /\ Second
    /\ ret.op = "peek_mut" /\ ret.pre = <<>> /\ ret.val = None
    /\ head = None

\* C3: second.rs: on a non-empty stack peek() returns a reference to the head
\* node's element, whose value is the one the next pop() returns, and the chain
\* is the one before the call.
C3_Peek ==
    (Second /\ ret.op = "peek" /\ ret.pre /= <<>>) =>
        /\ ret.val /= None
        /\ Chain /= <<>>
        /\ Unwrap(ret.val) = Chain[1]
        /\ Some(heap[Unwrap(ret.val)].elem) = ShadowTop
        /\ Contents = ret.pre
        /\ Contents = shadow

C3_Witness ==
    /\ Second
    /\ ret.op = "peek" /\ ret.pre = <<3, 2, 1>>
    /\ peeked /= None
    /\ heap[Unwrap(peeked)].elem = 3

\* C4: second.rs: on a non-empty stack peek_mut() returns a reference to the
\* head node's element and leaves the chain as it was; after v is written
\* through it the head element is v, so that peek() and pop() return v, and the
\* elements below are the ones before the write, in their order.
C4_PeekMut ==
    Second =>
        /\ (ret.op = "peek_mut" /\ ret.pre /= <<>>) =>
            /\ ret.val /= None
            /\ Chain /= <<>>
            /\ Unwrap(ret.val) = Chain[1]
            /\ Contents = ret.pre
        /\ ret.op = "peek_mut_write" =>
            /\ Contents = <<Unwrap(ret.arg)>> \o Tail(ret.pre)
            /\ peek_ref(head) /= None
            /\ heap[Unwrap(peek_ref(head))].elem = Unwrap(ret.arg)
            /\ ShadowTop = ret.arg

C4_Witness ==
    /\ Second
    /\ ret.op = "peek_mut_write"
    /\ ret.pre = <<3, 2, 1>>
    /\ Contents = <<4, 2, 1>>

\* C5: second.rs: the results of next() on the IntoIter of a stack of len
\* elements are the len elements, by value, head first, and none from then on;
\* between the calls the IntoIter holds the elements not yet yielded.
C5_IntoIter ==
    (Second /\ owner = "into_iter") =>
        /\ \A k \in 1..Len(out) : out[k] = Yield(snap, k)
        /\ (pc = "idle" /\ Len(out) <= Len(snap)) =>
               Contents = SubSeq(snap, Len(out) + 1, Len(snap))
        /\ (pc = "idle" /\ Len(out) > Len(snap)) => head = None

C5_Witness ==
    /\ Second /\ owner = "into_iter"
    /\ snap = <<3, 2, 1>>
    /\ out = <<Some(3), Some(2), Some(1), None>>

\* C6: second.rs: the results of next() on an Iter are references to the
\* chain's nodes' elements, head first, then none; while the Iter is held and
\* after it is let go, at whatever point, the chain holds the elements it held
\* when iter() was called, which are the ones the pops are to return.
C6_Iter ==
    Second =>
        /\ \A i \in IterIds : iters[i] /= NoIter =>
            /\ Contents = iter_out[i].snap
            /\ \A k \in 1..Len(iter_out[i].res) :
                   iter_out[i].res[k] = Yield(Chain, k)
        /\ ret.op = "Iter" => (Contents = ret.pre /\ Contents = shadow)

C6_Witness ==
    /\ Second
    /\ \E i \in IterIds :
        /\ iters[i] /= NoIter
        /\ iter_out[i].snap = <<3, 2, 1>>
        /\ Len(iter_out[i].res) = 4
        /\ iter_out[i].res[4] = None
        /\ heap[Unwrap(iter_out[i].res[2])].elem = 2

\* C7: second.rs: the results of next() on an IterMut are references to the
\* chain's nodes' elements, each node once, head first, then none; after v is
\* written through the k-th of them the k-th element from the head is v, and
\* the chain has the length and the other elements the history of the pushes,
\* pops and writes gives it, also once the IterMut is let go.
C7_IterMut ==
    Second =>
        /\ (itermut /= NoIter /\ pc = "idle") =>
            /\ \A k \in 1..Len(out) : out[k] = Yield(Chain, k)
            /\ Contents = shadow
        /\ ret.op = "IterMut_write" =>
            /\ ret.arg[1] <= Len(Contents)
            /\ Contents[ret.arg[1]] = ret.arg[2]
            /\ Contents = shadow
        /\ ret.op = "IterMut_release" => Contents = shadow

C7_Witness ==
    /\ Second
    /\ itermut /= NoIter
    /\ ret.op = "IterMut_write" /\ ret.arg = <<2, 5>>
    /\ Len(out) = 3
    /\ Contents = <<3, 5, 1>>

\* The nodes the references the IterMut yielded refer to.
Yielded == {Unwrap(out[k]) : k \in {j \in 1..Len(out) : out[j] /= None}}

InIterMutNext == pc \in {"itermut_taken", "itermut_advanced"}

\* C8: second.rs: at every step of an iteration with IterMut, the steps inside
\* next() included, no two live mutable references refer to the same node: the
\* cursor is absent once next() has taken it and until it is advanced, the
\* cursor refers neither to the node next() holds nor to a node whose element
\* reference was yielded, the node next() holds was not yielded, and no two
\* yielded references refer to the same node.
C8_NoAlias ==
    (Second /\ itermut /= NoIter) =>
        /\ pc = "itermut_taken" => itermut.next = None
        /\ itermut.next /= None => Unwrap(itermut.next) \notin Yielded
        /\ (InIterMutNext /\ local.node /= None) =>
            /\ itermut.next /= local.node
            /\ Unwrap(local.node) \notin Yielded
        /\ \A j, k \in 1..Len(out) :
               (j /= k /\ out[j] /= None) => out[j] /= out[k]

C8_Witness ==
    /\ Second
    /\ pc = "itermut_advanced"
    /\ Len(out) = 1
    /\ local.node /= None
    /\ itermut.next /= None
    /\ Cardinality(Yielded \cup {Unwrap(local.node), Unwrap(itermut.next)}) = 3

InDrop == pc \in {"drop_loop", "drop_body_end"}

\* The nodes the link a drop loop holds in cur_link still reaches.
DropRest ==
    IF local.fn = "drop" THEN WalkNodes(heap, local.cur_link, MaxLen + 1)
    ELSE WalkNodes1(heap1, local.cur_link, MaxLen + 1)

\* A step of either drop, once it has begun.
DropStep ==
    \/ drop_loop_take \/ drop_loop_release \/ drop_exit
    \/ first_drop_loop_replace \/ first_drop_loop_release \/ first_drop_exit

\* C9: both modules: the drop of a stack whose chain has N nodes ends after N
\* iterations of its loop, having released each node once, front to back, and
\* leaves head absent. After each iteration the nodes released are the first
\* ones of the chain, as many as iterations were made, and cur_link reaches
\* the others, and a step of drop is always possible: the loop ends after N
\* iterations and no sooner.
C9_Drop ==
    /\ ret.op = "drop" =>
        /\ loops = Len(ret.arg)
        /\ released = ret.arg
        /\ head = None /\ head1 = Empty
        /\ DOMAIN heap = {} /\ DOMAIN heap1 = {}
    /\ InDrop =>
        /\ head = None /\ head1 = Empty
        /\ released = SubSeq(local.nodes, 1, loops)
        /\ ENABLED DropStep
    /\ pc = "drop_loop" =>
        DropRest = SubSeq(local.nodes, loops + 1, Len(local.nodes))

C9_Witness ==
    /\ module = "first"
    /\ ret.op = "drop"
    /\ Len(ret.arg) = 3
    /\ loops = 3
    /\ Len(released) = 3

\* C10: both modules: during drop the releases of nodes are never nested: a
\* node is released with its next link absent, so that its release releases no
\* other node.
C10_Depth ==
    /\ depth <= 1
    /\ (pc = "drop_body_end" /\ local.fn = "drop") =>
           heap[local.boxed_node].next = None
    /\ (pc = "drop_body_end" /\ local.fn = "first_drop") =>
           heap1[local.boxed_node].next = Empty

C10_Witness ==
    /\ Second
    /\ pc = "drop_loop"
    /\ Len(local.nodes) = 3
    /\ loops = 3
    /\ depth = 1


\* In the results s of an iterator, every result after a none is none.
NoneForGood(s) == \A j, k \in 1..Len(s) : (j < k /\ s[j] = None) => s[k] = None

Ended(s) == \E j \in 1..Len(s) : s[j] = None

\* C11: second.rs: for IntoIter, Iter and IterMut, once next() has returned
\* none every later next() returns none; the iterator is then as it was (its
\* cursor absent, the IntoIter's list empty) and the call that returned none
\* left the chain as it found it.
C11_Fused ==
    Second =>
        /\ owner = "into_iter" =>
            /\ NoneForGood(out)
            /\ (pc = "idle" /\ Ended(out)) => (head = None /\ DOMAIN heap = {})
        /\ itermut /= NoIter =>
            /\ NoneForGood(out)
            /\ (pc = "idle" /\ Ended(out)) => itermut.next = None
        /\ \A i \in IterIds : iters[i] /= NoIter =>
            /\ NoneForGood(iter_out[i].res)
            /\ Ended(iter_out[i].res) =>
                   (iters[i].next = None /\ Contents = iter_out[i].snap)
        /\ (ret.op \in {"IntoIter::next", "IterMut::next"} /\ ret.val = None) =>
               Contents = ret.pre

C11_Witness ==
    /\ Second
    /\ itermut /= NoIter
    /\ pc = "idle"
    /\ Contents /= <<>>
    /\ Len(out) = Len(Contents) + 2
    /\ out[Len(out)] = None /\ out[Len(out) - 1] = None


Bit(b) == IF b THEN 1 ELSE 0

\* A &mut self method of the list the client holds is being executed.
InMutCall == owner = "list" /\ pc \in {"push_taken", "push_boxed", "pop_taken"}

\* The exclusive access paths to the list's contents that are live: the
\* reference of peek_mut(), the borrow of iter_mut() (its cursor and the
\* references it yielded), a push or pop being executed.
ExclusivePaths == Bit(pmut /= None) + Bit(itermut /= NoIter) + Bit(InMutCall)

\* The read-only access paths that are live: the reference of peek(), and the
\* borrow of each iter() (its cursor and the references it yielded).
SharedPaths ==
    Bit(peeked /= None) + Cardinality({i \in IterIds : iters[i] /= NoIter})

\* C12: second.rs: at every instant at most one exclusive access path to the
\* stack's contents is live, and read-only access paths are live only while no
\* exclusive one is.
C12_Aliasing ==
    Second =>
        /\ ExclusivePaths <= 1
        /\ ExclusivePaths = 1 => SharedPaths = 0

C12_Witness ==
    /\ Second
    /\ ExclusivePaths = 0
    /\ SharedPaths = 1 + Cardinality(IterIds)
    /\ Contents /= <<>>


\* C13: the same pushes and pops made on a first.rs List and on a second.rs
\* List of i32, both from new(): every pop returns the same on both, after
\* every call the two chains hold the same elements in the same order, and
\* no assertion of test::basics fails.
C13_Refines ==
    module = "both" =>
        /\ Contents = Contents1
        /\ ret.op = "pop" => ret.val = ret.expect
        /\ basics.st /= "failed"

C13_Witness ==
    /\ module = "both"
    /\ basics = [at |-> Len(BasicsScript) - 1, st |-> "running"]
    /\ ret.op = "pop" /\ ret.val = Some(1) /\ ret.expect = Some(1)
    /\ Contents1 = <<>>


----------------------------------------------------------------------------
\* Ownership: the places that own a Box<Node>.

\* The list of the module under test, with its links read as Option.
IsFirst == module = "first"
TheHeap == IF IsFirst THEN heap1 ELSE heap
AsOption(l) == IF IsFirst THEN (IF l = Empty THEN None ELSE Some(l.node)) ELSE l
TheHead == IF IsFirst THEN AsOption(head1) ELSE head
TheChain == IF IsFirst THEN Chain1 ELSE Chain
TheContents == IF IsFirst THEN Contents1 ELSE Contents

\* The link reached from the link l after k steps along next.
RECURSIVE LinkAfter(_, _)
LinkAfter(l, k) ==
    IF k = 0 \/ l = None THEN l
    ELSE IF Unwrap(l) \notin DOMAIN TheHeap THEN None
    ELSE LinkAfter(AsOption(TheHeap[Unwrap(l)].next), k - 1)

\* The local variables of the call in progress that own the node n.
Held(n) ==
    IF pc \in {"push_taken", "first_push_replaced"}
        THEN Bit(AsOption(local.next) = Some(n))
    ELSE IF pc \in {"push_boxed", "first_push_boxed"}
        THEN Bit(local.new_node = n)
    ELSE IF pc \in {"pop_taken", "first_pop_replaced"}
        THEN Bit(AsOption(local.taken) = Some(n))
    ELSE IF pc = "drop_loop"
        THEN Bit(AsOption(local.cur_link) = Some(n))
    ELSE IF pc = "drop_body_end"
        THEN Bit(AsOption(local.cur_link) = Some(n)) + Bit(local.boxed_node = n)
    ELSE 0

\* The number of owners of the node n: the head, the next links of the nodes,
\* and the local variables of the call in progress.
Owners(n) ==
    Bit(TheHead = Some(n))
    + Cardinality({m \in DOMAIN TheHeap : AsOption(TheHeap[m].next) = Some(n)})
    + Held(n)

\* The client holds the stack and no push, pop or drop is being executed.
AtRest ==
    /\ owner \in {"list", "into_iter"}
    /\ pc \in {"idle", "itermut_taken", "itermut_advanced"}

\* C14: whenever no push, pop or drop is in progress, the chain from the head
\* is acyclic and reaches an absent link after exactly len steps, where len is
\* the number of pushes less the number of pops that returned an element; the
\* nodes allocated are those len nodes (a push has made one, a pop that
\* returned an element has released one), and each of them is owned by
\* exactly one link.
C14_Chain ==
    AtRest =>
        /\ Len(TheChain) = net
        /\ Cardinality(Range(TheChain)) = Len(TheChain)
        /\ LinkAfter(TheHead, net) = None
        /\ \A k \in 0..(net - 1) : LinkAfter(TheHead, k) /= None
        /\ DOMAIN TheHeap = Range(TheChain)
        /\ Cardinality(DOMAIN TheHeap) = net
        /\ \A n \in DOMAIN TheHeap : Owners(n) = 1
        /\ (pc = "idle" /\ ret.op = "push") =>
               Cardinality(DOMAIN TheHeap) = Len(ret.pre) + 1
        /\ (pc = "idle" /\ ret.op \in {"pop", "IntoIter::next"}) =>
               Cardinality(DOMAIN TheHeap) = Len(ret.pre) - Bit(ret.val /= None)

\* Three pushes and a pop that returned an element: two nodes are left.
C14_Witness ==
    /\ AtRest /\ pc = "idle"
    /\ ret.op = "pop" /\ ret.val /= None
    /\ net = 2
    /\ Len(TheChain) = 2


----------------------------------------------------------------------------
\* The elements of the chain that starts at the link l, head first.
RECURSIVE ElemsFrom(_, _)
ElemsFrom(l, fuel) ==
    IF l = None \/ fuel = 0 THEN <<>>
    ELSE IF Unwrap(l) \notin DOMAIN TheHeap THEN <<>>
    ELSE <<TheHeap[Unwrap(l)].elem>>
             \o ElemsFrom(AsOption(TheHeap[Unwrap(l)].next), fuel - 1)

\* A push or a pop is between its steps.
InPush == pc \in {"push_taken", "push_boxed", "first_push_replaced", "first_push_boxed"}
InPop == pc \in {"pop_taken", "first_pop_replaced"}

\* C15: push and pop take the head and then install the new one. At every
\* step the head is absent or owns an allocated node. Between the steps the
\* head is absent, the chain taken out is held whole by one local variable
\* (or, once the new node is made, by its next link), and every node has
\* exactly one owner. When push returns, the head is the new node and the
\* chain after it is the prior chain; when pop returns, the head is what the
\* next link of the popped node was.
C15_TakeInstall ==
    /\ TheHead = None \/ Unwrap(TheHead) \in DOMAIN TheHeap
    /\ (InPush \/ InPop) =>
        /\ TheHead = None
        /\ \A n \in DOMAIN TheHeap : Owners(n) = 1
        /\ Cardinality(DOMAIN TheHeap) =
               Len(local.pre) + Bit(pc \in {"push_boxed", "first_push_boxed"})
    /\ pc \in {"push_taken", "first_push_replaced"} =>
        ElemsFrom(AsOption(local.next), MaxLen + 1) = local.pre
    /\ pc \in {"push_boxed", "first_push_boxed"} =>
        /\ TheHeap[local.new_node].elem = local.elem
        /\ ElemsFrom(AsOption(TheHeap[local.new_node].next), MaxLen + 1) = local.pre
    /\ InPop =>
        ElemsFrom(AsOption(local.taken), MaxLen + 1) = local.pre
    /\ (pc = "idle" /\ ret.op = "push") =>
        /\ TheHead /= None
        /\ TheHeap[Unwrap(TheHead)].elem = Unwrap(ret.arg)
        /\ ElemsFrom(AsOption(TheHeap[Unwrap(TheHead)].next), MaxLen + 1) = ret.pre
    /\ (pc = "idle" /\ ret.op \in {"pop", "IntoIter::next"}) =>
        /\ ElemsFrom(TheHead, MaxLen + 1) =
               (IF ret.pre = <<>> THEN <<>> ELSE Tail(ret.pre))
        /\ \A n \in DOMAIN TheHeap : Owners(n) = 1

\* A push on a stack of two, between making the node and installing it.
C15_Witness ==
    /\ pc \in {"push_boxed", "first_push_boxed"}
    /\ Len(local.pre) = 2
    /\ TheHead = None
    /\ Owners(local.new_node) = 1


----------------------------------------------------------------------------
\* The Iters the client holds.
HeldIters == {i \in IterIds : iters[i] /= NoIter}

\* C16: second.rs: each Iter has a cursor of its own. With any number of them
\* held and their next() calls interleaved in any order, the cursor of each
\* is at the node that follows the ones it has yielded itself, and its
\* results are the chain's nodes head first, whatever the others have done;
\* an Iter with no call made yet is at the head, also when another has been
\* consumed before.
C16_Independent ==
    Second =>
        \A i \in HeldIters :
            /\ iters[i].next = Yield(Chain, Len(iter_out[i].res) + 1)
            /\ iter_out[i].res = <<>> => iters[i].next = NodeRef(head)
            /\ \A k \in 1..Len(iter_out[i].res) :
                   iter_out[i].res[k] = Yield(Chain, k)
            /\ \A j \in HeldIters \ {i} :
                   (/\ Len(iter_out[j].res) < Len(iter_out[i].res)
                    /\ Len(iter_out[j].res) < Len(Chain))
                       => iters[j].next /= iters[i].next

\* One Iter is consumed to the end, another is held with no call made yet.
C16_Witness ==
    /\ Second
    /\ Len(Chain) = 3
    /\ \E i, j \in HeldIters :
        /\ iter_out[i].res = <<Some(Chain[1]), Some(Chain[2]), Some(Chain[3]), None>>
        /\ iters[i].next = None
        /\ iter_out[j].res = <<>>
        /\ iters[j].next = head


----------------------------------------------------------------------------
\* The IntoIter is being dropped: the drop of the List it holds is running.
IntoIterDrop == Second /\ owner = "into_iter" /\ InDrop

\* The number of next() calls on the IntoIter that returned an element.
Taken == Cardinality({j \in 1..Len(out) : out[j] /= None})

\* C17: second.rs: when an IntoIter is dropped after next() calls of which k
\* returned an element, those k elements are the first k of the stack and are
\* with the caller; the nodes the drop of the List releases are the len - k
\* that remain, each of them once, and none is left allocated when the loop
\* ends.
C17_PartialDrop ==
    IntoIterDrop =>
        /\ \A j \in 1..Len(out) : out[j] = Yield(snap, j)
        /\ Taken <= Len(snap)
        /\ local.pre = SubSeq(snap, Taken + 1, Len(snap))
        /\ Len(local.nodes) = Len(snap) - Taken
        /\ Cardinality(DOMAIN heap) + Len(released) = Len(snap) - Taken
        /\ Cardinality(Range(released)) = Len(released)
        /\ Range(released) \cap DOMAIN heap = {}
        /\ Range(released) \cup DOMAIN heap = Range(local.nodes)
        /\ Len(released) = loops
        /\ (pc = "drop_loop" /\ local.cur_link = None) =>
            /\ head = None
            /\ DOMAIN heap = {}
            /\ released = local.nodes
            /\ Len(released) = Len(snap) - Taken

\* An IntoIter over three elements dropped after one next(): the loop of drop
\* has ended with the two other nodes released.
C17_Witness ==
    /\ IntoIterDrop
    /\ pc = "drop_loop" /\ local.cur_link = None
    /\ Len(snap) = 3
    /\ out = <<Some(snap[1])>>
    /\ Len(released) = 2

====
